---------------------------- MODULE Spec2Model ----------------------------
(***************************************************************************)
(* Model of the utterance preprocessing pipeline (UtterancePreprocessor),  *)
(* of the text scorers (SentimentScore, KeywordBasedScorer) and of the     *)
(* report assembly script (main.py).                                       *)
(*                                                                         *)
(* A Python str is a sequence of Unicode code points (naturals).  A table  *)
(* (DataFrame) is a sequence of records, one record per row, in row order. *)
(* A missing cell (NaN / NaT / None) is the value NaN in a numeric column  *)
(* and NaText in a text column.                                            *)
(***************************************************************************)
EXTENDS Integers, Sequences, FiniteSets, TLC

VARIABLES
    pc,          \* position of the running script / method chain
    df,          \* self.df (preprocessor) or df (main.py)
    utterances,  \* self.utterances: the joined (doll_id, window_id, texts) table
    raw,         \* the table handed to the constructor, as it was handed in
    out,         \* the table returned by the operation under way
    kss,         \* what kss.split_sentences answered in this run, per text
    arg,         \* argument of a directly called function
    ret,         \* its return value
    ret2,        \* return value of a second call on ret
    texts,               \* main.py: the text column as a list
    outputs,             \* main.py: what the classifier pipeline returned
    sentiment_results,   \* main.py: sentiment_results_df
    kewyword_scores,     \* main.py: the keyword score table
    analysis_dataset     \* main.py: the merged table

\* the variables of main.py
reportVars == <<texts, outputs, sentiment_results, kewyword_scores, analysis_dataset>>

vars == <<pc, df, utterances, raw, out, kss, arg, ret, ret2, reportVars>>

\* main.py is not running
NoReport ==
    /\ texts = <<>>
    /\ outputs = <<>>
    /\ sentiment_results = <<>>
    /\ kewyword_scores = <<>>
    /\ analysis_dataset = <<>>

---------------------------------------------------------------------------
(* Generic helpers                                                         *)

Range(s) == {s[i] : i \in 1..Len(s)}

Min(S) == CHOOSE m \in S : \A n \in S : m <= n

RECURSIVE SeqSum(_)
SeqSum(s) == IF s = <<>> THEN 0 ELSE Head(s) + SeqSum(Tail(s))

RECURSIVE Flatten(_)
\* concatenation of a sequence of sequences
Flatten(ss) == IF ss = <<>> THEN <<>> ELSE Head(ss) \o Flatten(Tail(ss))

\* the members of the set of naturals I, ascending, as a sequence
Ascending(I) ==
    [n \in 1..Cardinality(I) |->
        CHOOSE i \in I : Cardinality({j \in I : j < i}) = n - 1]

\* all sequences over S of length 0..n
SeqsUpTo(S, n) == UNION {[1..k -> S] : k \in 0..n}

---------------------------------------------------------------------------
(* Missing values                                                          *)

NaN == -1
NaText == <<-1>>
IsStr(t) == t # NaText

---------------------------------------------------------------------------
(* Character classes of Python's re / str for the code points in use       *)

\* str.strip() and \s: Unicode whitespace
IsSpace(c) ==
    \/ (c >= 9 /\ c <= 13)
    \/ (c >= 28 /\ c <= 32)
    \/ c \in {133, 160, 5760, 8232, 8233, 8239, 8287, 12288}
    \/ (c >= 8192 /\ c <= 8202)

\* \w: letters, digits, underscore (ASCII, Hangul syllables, Hangul
\* compatibility jamo: the blocks the texts of the model are written in)
IsWord(c) ==
    \/ (c >= 48 /\ c <= 57)
    \/ (c >= 65 /\ c <= 90)
    \/ c = 95
    \/ (c >= 97 /\ c <= 122)
    \/ (c >= 12593 /\ c <= 12686)
    \/ (c >= 44032 /\ c <= 55203)

\* re.I on ASCII letters
Lower(c) == IF c >= 65 /\ c <= 90 THEN c + 32 ELSE c

\* s has prefix p at position i (exactly)
HasPrefix(s, i, p) ==
    /\ i >= 1
    /\ i + Len(p) - 1 <= Len(s)
    /\ \A k \in 1..Len(p) : s[i + k - 1] = p[k]

\* the same, ignoring case
HasPrefixCI(s, i, p) ==
    /\ i >= 1
    /\ i + Len(p) - 1 <= Len(s)
    /\ \A k \in 1..Len(p) : Lower(s[i + k - 1]) = Lower(p[k])

\* number of consecutive copies of s[i] starting at i
RunLen(s, i) ==
    LET stop == {j \in i..Len(s) : s[j] # s[i]}
    IN  IF stop = {} THEN Len(s) - i + 1 ELSE Min(stop) - i

\* number of consecutive whitespace characters starting at i
SpaceRun(s, i) ==
    LET stop == {j \in i..Len(s) : ~IsSpace(s[j])}
    IN  IF stop = {} THEN Len(s) - i + 1 ELSE Min(stop) - i

\* str.strip()
Strip(s) ==
    LET ink == {j \in 1..Len(s) : ~IsSpace(s[j])}
    IN  IF ink = {} THEN <<>>
        ELSE SubSeq(s, Min(ink), CHOOSE m \in ink : \A n \in ink : n <= m)

\* \b at the gap before position i of s
WordBoundary(s, i) ==
    LET before == i - 1 >= 1 /\ i - 1 <= Len(s) /\ IsWord(s[i - 1])
        after  == i >= 1 /\ i <= Len(s) /\ IsWord(s[i])
    IN  before # after

---------------------------------------------------------------------------
(* UtterancePreprocessor.step2_clean                                       *)

kwNoise == <<110, 111, 105, 115, 101>>                        \* noise
kwInaudible == <<105, 110, 97, 117, 100, 105, 98, 108, 101>>  \* inaudible
kwLaughter == <<40, 50883, 51020, 41>>                        \* (U+C6C3 U+C74C)

\* _FILLERS, in the order of the alternation
FILLERS ==
    << <<51020>>, <<50612>>, <<44536>>, <<47561>>, <<50557, 44036>>,
       <<44536, 47084, 45768, 44620>>, <<47952, 51648>>, <<51652, 51676>>,
       <<50500, 45768>>, <<44536, 47084, 47732>> >>

\* index of the last character of the match of
\*   \[(?:noise|inaudible).*?\]|\(laughter\)   (re.I)
\* that starts at i, or 0 when there is none
NoiseEnd(s, i) ==
    LET kwlen == IF HasPrefixCI(s, i + 1, kwNoise) THEN Len(kwNoise)
                 ELSE IF HasPrefixCI(s, i + 1, kwInaudible) THEN Len(kwInaudible)
                 ELSE 0
        from == i + 1 + kwlen
        \* .*? stops at the first "]" and never crosses "\n"
        closing == {j \in from..Len(s) :
                        s[j] = 93 /\ \A k \in from..(j - 1) : s[k] # 10}
    IN  IF s[i] = 91 /\ kwlen > 0 /\ closing # {} THEN Min(closing)
        ELSE IF HasPrefixCI(s, i, kwLaughter) THEN i + Len(kwLaughter) - 1
        ELSE 0

RECURSIVE RemoveNoise(_, _)
RemoveNoise(s, i) ==
    IF i > Len(s) THEN <<>>
    ELSE IF NoiseEnd(s, i) > 0 THEN RemoveNoise(s, NoiseEnd(s, i) + 1)
    ELSE <<s[i]>> \o RemoveNoise(s, i + 1)

RECURSIVE CollapseLaughter(_, _)
\* (U+314B U+314B+ | U+314E U+314E+) -> m.group(1)[:2]
CollapseLaughter(s, i) ==
    IF i > Len(s) THEN <<>>
    ELSE IF s[i] \in {12619, 12622} /\ RunLen(s, i) >= 2
         THEN <<s[i], s[i]>> \o CollapseLaughter(s, i + RunLen(s, i))
    ELSE <<s[i]>> \o CollapseLaughter(s, i + 1)

\* [U+AC00-U+D7A3 A-Za-z]
IsLetter(c) ==
    \/ (c >= 44032 /\ c <= 55203)
    \/ (c >= 65 /\ c <= 90)
    \/ (c >= 97 /\ c <= 122)

RECURSIVE CollapseRepeats(_, _)
\* ([..])\1{2,} -> \1
CollapseRepeats(s, i) ==
    IF i > Len(s) THEN <<>>
    ELSE IF IsLetter(s[i]) /\ RunLen(s, i) >= 3
         THEN <<s[i]>> \o CollapseRepeats(s, i + RunLen(s, i))
    ELSE <<s[i]>> \o CollapseRepeats(s, i + 1)

\* length of the filler matched by \b(...)\b at i, or 0: the first
\* alternative for which the whole pattern matches
FillerLen(s, i) ==
    LET hit == {n \in 1..Len(FILLERS) :
                    /\ HasPrefix(s, i, FILLERS[n])
                    /\ WordBoundary(s, i + Len(FILLERS[n]))}
    IN  IF WordBoundary(s, i) /\ hit # {} THEN Len(FILLERS[Min(hit)]) ELSE 0

RECURSIVE RemoveFillers(_, _)
RemoveFillers(s, i) ==
    IF i > Len(s) THEN <<>>
    ELSE IF FillerLen(s, i) > 0 THEN RemoveFillers(s, i + FillerLen(s, i))
    ELSE <<s[i]>> \o RemoveFillers(s, i + 1)

RECURSIVE CollapseSpaces(_, _)
\* \s+ -> ' '
CollapseSpaces(s, i) ==
    IF i > Len(s) THEN <<>>
    ELSE IF IsSpace(s[i]) THEN <<32>> \o CollapseSpaces(s, i + SpaceRun(s, i))
    ELSE <<s[i]>> \o CollapseSpaces(s, i + 1)

\* the five passes, each on the output of the one before
step2_clean(sentence) ==
    LET s1 == RemoveNoise(sentence, 1)
        s2 == CollapseLaughter(s1, 1)
        s3 == CollapseRepeats(s2, 1)
        s4 == RemoveFillers(s3, 1)
    IN  Strip(CollapseSpaces(s4, 1))

---------------------------------------------------------------------------
(* Direct calls of step2_clean: clean(x), then clean(clean(x))             *)

MaxChunks == 3

\* fragments the argument strings are assembled from
CleanChunks ==
    { <<91, 110, 111>>,                       \* [no
      <<105>>,                                \* i
      <<105, 105, 105>>,                      \* iii
      <<115, 101, 93>>,                       \* se]
      <<91, 78, 79, 73, 83, 69>>,             \* [NOISE
      <<93>>,                                 \* ]
      <<32>>, <<10>>,                         \* space, newline
      <<51020>>,                              \* filler U+C74C
      <<51339, 50500>>,                       \* U+C88B U+C544 (a kept word)
      <<12619>>, <<12619, 12619, 12619>>,     \* laughter jamo
      kwLaughter,
      <<46>> }                                \* .

ChunkTexts(chunks, n) == {Flatten(cs) : cs \in SeqsUpTo(chunks, n)}

InitClean ==
    /\ pc = "clean_arg"
    /\ arg \in ChunkTexts(CleanChunks, MaxChunks)
    /\ ret = <<>>
    /\ ret2 = <<>>
    /\ NoReport
    /\ df = <<>>
    /\ utterances = <<>>
    /\ raw = <<>>
    /\ out = <<>>
    /\ kss = <<>>

CleanOnce ==
    /\ pc = "clean_arg"
    /\ ret' = step2_clean(arg)
    /\ pc' = "cleaned_once"
    /\ UNCHANGED <<reportVars, arg, ret2, df, utterances, raw, out, kss>>

CleanTwice ==
    /\ pc = "cleaned_once"
    /\ ret2' = step2_clean(ret)
    /\ pc' = "cleaned_twice"
    /\ UNCHANGED <<reportVars, arg, ret, df, utterances, raw, out, kss>>

NextClean == CleanOnce \/ CleanTwice

SpecClean == InitClean /\ [][NextClean]_vars

\* C4: cleaning is idempotent: a second pass of step2_clean changes nothing
C4_CleanIdempotent == pc = "cleaned_twice" => ret2 = ret

---------------------------------------------------------------------------
(* KeywordBasedScorer                                                      *)

\* self.lexicon, in insertion order; weights in tenths (0.8 is 8)
lexicon ==
    << [category |-> "positive",
        keywords |-> << [word |-> <<44256, 47560, 50892>>, weight |-> 10],
                        [word |-> <<51339, 50500>>, weight |-> 8],
                        [word |-> <<54665, 48373>>, weight |-> 10] >>],
       [category |-> "negative",
        keywords |-> << [word |-> <<49899, 50612>>, weight |-> 10],
                        [word |-> <<50864, 50872>>, weight |-> 12],
                        [word |-> <<51676, 51613>>, weight |-> 9] >>],
       [category |-> "danger",
        keywords |-> << [word |-> <<51453, 44256, 32, 49910>>, weight |-> 20],
                        [word |-> <<45149, 45236, 44256, 32, 49910>>,
                         weight |-> 20] >>] >>

\* only the first occurrence counted
FindallLenOnce(word, s, i) ==
    IF \E p \in i..Len(s) : HasPrefix(s, p, word) THEN 1 ELSE 0

RECURSIVE FindallLen(_, _, _)
\* len(re.findall(word, text)) for a pattern without metacharacters: scan
\* from i, and resume after each match
FindallLen(word, s, i) ==
    IF i > Len(s) THEN 0
    ELSE IF HasPrefix(s, i, word) THEN 1 + FindallLen(word, s, i + Len(word))
    ELSE FindallLen(word, s, i + 1)

\* the inner loop: score += count * weight
CategoryScore(keywords, text) ==
    SeqSum([n \in 1..Len(keywords) |->
                FindallLen(keywords[n].word, text, 1) * keywords[n].weight])

\* f'keyword_score_{category}'
ScoreKey(category) == "keyword_score_" \o category

keyword_count_score(text) ==
    [key \in {ScoreKey(lexicon[c].category) : c \in 1..Len(lexicon)} |->
        LET c == CHOOSE c \in 1..Len(lexicon) : ScoreKey(lexicon[c].category) = key
        IN  CategoryScore(lexicon[c].keywords, text)]

---------------------------------------------------------------------------
(* Direct calls of keyword_count_score                                     *)

MaxKeywordChunks == 3

KeywordChunks ==
    { <<44256, 47560, 50892>>,      \* a positive keyword
      <<51339, 50500>>,             \* a positive keyword, weight 0.8
      <<49899, 50612>>,             \* a negative keyword
      <<51453, 44256>>,             \* first word of a danger phrase
      <<49910>>,                    \* its last syllable
      <<32>>,
      <<51339>> }                   \* first syllable of a keyword alone

InitKeyword ==
    /\ pc = "keyword_arg"
    /\ arg \in ChunkTexts(KeywordChunks, MaxKeywordChunks)
    /\ ret = <<>>
    /\ ret2 = <<>>
    /\ NoReport
    /\ df = <<>>
    /\ utterances = <<>>
    /\ raw = <<>>
    /\ out = <<>>
    /\ kss = <<>>

KeywordCountScore ==
    /\ pc = "keyword_arg"
    /\ ret' = keyword_count_score(arg)
    /\ pc' = "keyword_scored"
    /\ UNCHANGED <<reportVars, arg, ret2, df, utterances, raw, out, kss>>

NextKeyword == KeywordCountScore

SpecKeyword == InitKeyword /\ [][NextKeyword]_vars

\* positions at which word occurs in s
Occurrences(word, s) == {p \in 1..Len(s) : HasPrefix(s, p, word)}

\* the occurrences a left-to-right scan keeps: an occurrence is kept iff no
\* kept occurrence before it overlaps it
NonOverlapping(word, s) ==
    CHOOSE G \in SUBSET Occurrences(word, s) :
        \A p \in Occurrences(word, s) :
            p \in G <=> \A q \in G : q < p => q + Len(word) <= p

ExpectedScore(c, s) ==
    SeqSum([n \in 1..Len(lexicon[c].keywords) |->
                lexicon[c].keywords[n].weight
                * Cardinality(NonOverlapping(lexicon[c].keywords[n].word, s))])

\* C6: keyword_count_score returns exactly one entry keyword_score_<category>
\* per lexicon category; each is the weighted count of the non-overlapping
\* left-to-right occurrences of the category's keywords, is >= 0, and is 0
\* when no keyword of the category occurs in the text
C6_KeywordScores ==
    pc = "keyword_scored" =>
        /\ DOMAIN ret = {"keyword_score_positive", "keyword_score_negative",
                         "keyword_score_danger"}
        /\ \A c \in 1..Len(lexicon) :
            LET v == ret["keyword_score_" \o lexicon[c].category]
            IN  /\ v = ExpectedScore(c, arg)
                /\ v >= 0
                /\ (\A n \in 1..Len(lexicon[c].keywords) :
                        Occurrences(lexicon[c].keywords[n].word, arg) = {})
                   => v = 0

\* a text with a keyword occurring twice, a danger phrase, and no negative
\* keyword has been scored
C6_Witness ==
    /\ pc = "keyword_scored"
    /\ Cardinality(Occurrences(<<51339, 50500>>, arg)) = 2
    /\ ret["keyword_score_positive"] = 16
    /\ ret["keyword_score_negative"] = 0
    /\ ret["keyword_score_danger"] = 0

---------------------------------------------------------------------------
(* UtterancePreprocessor: remove_missing, generate_window_id,              *)
(* join_texts_by_window.  Times are in seconds.  The column orig is the    *)
(* row's position in the constructor's table and the column members of a   *)
(* window lists the orig of its rows; no operation reads either.           *)

\* DataFrame.dropna(): rows without any missing cell
DropNa(d) ==
    SelectSeq(d, LAMBDA r : r.doll_id # NaN /\ r.uttered_at # NaN /\ r.text # NaText)

\* order of the sort keys ['doll_id', 'uttered_at']
KeyLess(a, b) ==
    \/ a.doll_id < b.doll_id
    \/ (a.doll_id = b.doll_id /\ a.uttered_at < b.uttered_at)

\* r is put before the rows with an equal key
InsertBeforeEqual(r, s) ==
    LET later == {j \in 1..Len(s) : ~KeyLess(s[j], r)}
        at == IF later = {} THEN Len(s) + 1 ELSE Min(later)
    IN  SubSeq(s, 1, at - 1) \o <<r>> \o SubSeq(s, at, Len(s))

\* r is put after every row of s whose key is not greater (s is sorted)
InsertSorted(r, s) ==
    LET later == {j \in 1..Len(s) : KeyLess(r, s[j])}
        at == IF later = {} THEN Len(s) + 1 ELSE Min(later)
    IN  SubSeq(s, 1, at - 1) \o <<r>> \o SubSeq(s, at, Len(s))

RECURSIVE SortValuesUnstable(_)
\* a sort that turns rows of equal keys around
SortValuesUnstable(d) ==
    IF d = <<>> THEN <<>>
    ELSE InsertBeforeEqual(d[Len(d)], SortValuesUnstable(SubSeq(d, 1, Len(d) - 1)))

RECURSIVE SortValues(_)
\* sort_values(by=['doll_id', 'uttered_at']): a sort on several keys is a
\* lexsort, which keeps rows of equal keys in their order
SortValues(d) ==
    IF d = <<>> THEN <<>>
    ELSE InsertSorted(d[Len(d)], SortValues(SubSeq(d, 1, Len(d) - 1)))

\* pd.Timedelta(minutes=5)
FIVE_MINUTES == 300

\* Series.diff(): NaT first, then the difference to the row before
Diff(x) == [i \in 1..Len(x) |-> IF i = 1 THEN NaN ELSE x[i] - x[i - 1]]

\* .ge(): a gap of the threshold itself counts
Ge(x, bound) == [i \in 1..Len(x) |-> i # 1 /\ x[i] >= bound]

\* .gt(): False for NaT (the first row of a group)
Gt(x, bound) == [i \in 1..Len(x) |-> i # 1 /\ x[i] > bound]

\* .cumsum().astype(int) of a boolean series
CumSum(b) == [i \in 1..Len(b) |-> Cardinality({j \in 1..i : b[j]})]

\* the lambda with .ge in place of .gt
WindowIdsGe(x) == CumSum(Ge(Diff(x), FIVE_MINUTES))

\* the lambda of generate_window_id, on one doll's uttered_at series
WindowIdsOf(x) == CumSum(Gt(Diff(x), FIVE_MINUTES))

\* groupby('doll_id')['uttered_at'].transform(...): the lambda is applied to
\* each doll's rows, in row order, and its values go back to those rows
TransformWindowId(d) ==
    [i \in 1..Len(d) |->
        LET members == Ascending({j \in 1..Len(d) : d[j].doll_id = d[i].doll_id})
            x == [n \in 1..Len(members) |-> d[members[n]].uttered_at]
            n == CHOOSE n \in 1..Len(members) : members[n] = i
        IN  WindowIdsOf(x)[n]]

generate_window_id(d) ==
    LET sorted == SortValues(d)
        wid == TransformWindowId(sorted)
    IN  [i \in 1..Len(sorted) |->
            [doll_id |-> sorted[i].doll_id, uttered_at |-> sorted[i].uttered_at,
             text |-> sorted[i].text, orig |-> sorted[i].orig,
             window_id |-> wid[i]]]

RECURSIVE StrJoin(_, _)
\* sep.join(xs)
StrJoin(sep, xs) ==
    IF xs = <<>> THEN <<>>
    ELSE IF Len(xs) = 1 THEN xs[1]
    ELSE xs[1] \o sep \o StrJoin(sep, Tail(xs))

\* order of the group keys (doll_id, window_id)
PairLess(a, b) == a[1] < b[1] \/ (a[1] = b[1] /\ a[2] < b[2])

RECURSIVE SortPairs(_)
SortPairs(S) ==
    IF S = {} THEN <<>>
    ELSE LET m == CHOOSE m \in S : \A n \in S \ {m} : PairLess(m, n)
         IN  <<m>> \o SortPairs(S \ {m})

\* groupby(['doll_id', 'window_id'])['text'].apply(' '.join): one row per
\* group, groups in key order, each group's rows in row order
join_texts_by_window(d) ==
    LET keys == SortPairs({<<d[i].doll_id, d[i].window_id>> : i \in 1..Len(d)})
    IN  [g \in 1..Len(keys) |->
            LET members == Ascending({i \in 1..Len(d) :
                                <<d[i].doll_id, d[i].window_id>> = keys[g]})
            IN  [doll_id |-> keys[g][1], window_id |-> keys[g][2],
                 texts |-> StrJoin(<<32>>,
                                   [n \in 1..Len(members) |-> d[members[n]].text]),
                 members |-> [n \in 1..Len(members) |-> d[members[n]].orig]]]

---------------------------------------------------------------------------
(* UtterancePreprocessor.kss_split_safe                                    *)

RECURSIVE ReSplit(_, _, _)
\* re.split(r'(?<=[.!?])\s+', text): the pieces of text from position start
\* on; i scans for a whitespace run that follows '.', '!' or '?'
ReSplit(s, start, i) ==
    IF i > Len(s) THEN <<SubSeq(s, start, Len(s))>>
    ELSE IF i > 1 /\ s[i - 1] \in {46, 33, 63} /\ IsSpace(s[i])
         THEN <<SubSeq(s, start, i - 1)>>
              \o ReSplit(s, i + SpaceRun(s, i), i + SpaceRun(s, i))
    ELSE ReSplit(s, start, i + 1)

\* [s.strip() for s in pieces if s.strip()]
StripNonEmpty(pieces) ==
    LET stripped == [n \in 1..Len(pieces) |-> Strip(pieces[n])]
    IN  SelectSeq(stripped, LAMBDA x : x # <<>>)

\* the guard of kss_split_safe: for these values it returns [] at once
Rejected(text) == ~IsStr(text) \/ Strip(text) = <<>>

\* without the try/except: the segmenter's error reaches the caller
kss_split_unsafe(text, answer) ==
    IF Rejected(text) THEN [raised |-> FALSE, sents |-> <<>>]
    ELSE IF ~answer.raised
         THEN [raised |-> FALSE, sents |-> StripNonEmpty(answer.sents)]
    ELSE [raised |-> TRUE, sents |-> <<>>]

\* kss_split_safe(text), given what kss.split_sentences(text) does when it
\* is called: answer.raised, or it returns answer.sents.  The result says
\* whether an error leaves the function (raised) and what it returns (sents)
kss_split_safe(text, answer) ==
    IF Rejected(text) THEN [raised |-> FALSE, sents |-> <<>>]
    ELSE IF ~answer.raised
         THEN [raised |-> FALSE, sents |-> StripNonEmpty(answer.sents)]
    ELSE [raised |-> FALSE, sents |-> StripNonEmpty(ReSplit(text, 1, 1))]

RECURSIVE CutAtSpaces(_, _, _)
\* the pieces of s cut before every whitespace run
CutAtSpaces(s, start, i) ==
    IF i > Len(s) THEN <<SubSeq(s, start, Len(s))>>
    ELSE IF IsSpace(s[i]) /\ i > start
         THEN <<SubSeq(s, start, i - 1)>> \o CutAtSpaces(s, i, i + SpaceRun(s, i))
    ELSE CutAtSpaces(s, start, i + 1)

\* The external segmenter kss.split_sentences is not part of the program:
\* on a text it raises, or returns the text whole, or the text cut before
\* every whitespace run (pieces with leading whitespace), or the text
\* between blank pieces.
KssAnswers(text) ==
    { [raised |-> TRUE, sents |-> <<>>],
      [raised |-> FALSE, sents |-> <<text>>],
      [raised |-> FALSE, sents |-> CutAtSpaces(text, 1, 1)],
      [raised |-> FALSE, sents |-> << <<32>>, text, <<>> >>] }

\* the segmenter as a function of the texts it is called on
KssFunctions(called) ==
    {f \in [called -> UNION {KssAnswers(t) : t \in called}] :
        \A t \in called : f[t] \in KssAnswers(t)}

\* the answer for a text the segmenter is never called on
NoAnswer == [raised |-> FALSE, sents |-> <<>>]

AnswerOf(f, text) == IF text \in DOMAIN f THEN f[text] ELSE NoAnswer

---------------------------------------------------------------------------
(* UtterancePreprocessor.split_sentences_keep_schema                       *)

\* the cap of the slice self.utterances[:30]
SEGMENT_CAP == 30

\* the whole table
NoSlice(u) == u

\* self.utterances[:30]
FirstRows(u) == SubSeq(u, 1, IF Len(u) < SEGMENT_CAP THEN Len(u) ELSE SEGMENT_CAP)

\* explode('sentences', ignore_index=True) of one row: a row per list
\* element, and one row with a missing value for an empty list
ExplodeRow(w) ==
    IF w.sentences = <<>>
    THEN << [doll_id |-> w.doll_id, window_id |-> w.window_id,
             sentences_count |-> w.sentences_count, sentence_text |-> NaText] >>
    ELSE [n \in 1..Len(w.sentences) |->
             [doll_id |-> w.doll_id, window_id |-> w.window_id,
              sentences_count |-> w.sentences_count,
              sentence_text |-> w.sentences[n]]]

\* cumcount() of the whole table, without the groupby
CumCountAll(o) == [i \in 1..Len(o) |-> i - 1]

\* groupby(id_cols).cumcount(): the number of earlier rows of the same group
CumCount(o) ==
    [i \in 1..Len(o) |->
        Cardinality({j \in 1..(i - 1) :
            o[j].doll_id = o[i].doll_id /\ o[j].window_id = o[i].window_id})]

\* The table split_sentences_keep_schema returns, given the segmenter f.
split_sentences_keep_schema(u, f) ==
    LET work == FirstRows(u)
        withSents ==
            [i \in 1..Len(work) |->
                LET sents == kss_split_safe(work[i].texts,
                                            AnswerOf(f, work[i].texts)).sents
                IN  [doll_id |-> work[i].doll_id, window_id |-> work[i].window_id,
                     sentences |-> sents, sentences_count |-> Len(sents)]]
        exploded == Flatten([i \in 1..Len(work) |-> ExplodeRow(withSents[i])])
        index == CumCount(exploded)
        indexed == [i \in 1..Len(exploded) |->
                      [doll_id |-> exploded[i].doll_id,
                       window_id |-> exploded[i].window_id,
                       sentence_index |-> index[i],
                       sentences_count |-> exploded[i].sentences_count,
                       sentence_text |-> exploded[i].sentence_text]]
    IN  \* dropna(subset=["sentence_text"])
        SelectSeq(indexed, LAMBDA r : r.sentence_text # NaText)

\* an error of the segmenter leaves kss_split_safe on some row of the slice
SplitRaises(u, f) ==
    \E i \in 1..Len(FirstRows(u)) :
        kss_split_safe(FirstRows(u)[i].texts, AnswerOf(f, FirstRows(u)[i].texts)).raised

\* the texts on which kss_split_safe calls the segmenter
CalledTexts(u) ==
    {FirstRows(u)[i].texts : i \in 1..Len(FirstRows(u))}
        \ {t \in {FirstRows(u)[i].texts : i \in 1..Len(FirstRows(u))} : Rejected(t)}

\* utterances['sentence_text'].map(step2_clean)
MapClean(o) ==
    [i \in 1..Len(o) |->
        [doll_id |-> o[i].doll_id, window_id |-> o[i].window_id,
         sentence_index |-> o[i].sentence_index,
         sentences_count |-> o[i].sentences_count,
         sentence_text |-> step2_clean(o[i].sentence_text)]]

---------------------------------------------------------------------------
(* UtterancePreprocessor.preprocess_utterances: the chain of methods       *)

RemoveMissing ==
    /\ pc = "constructed"
    /\ df' = DropNa(df)
    /\ pc' = "missing_removed"
    /\ UNCHANGED <<reportVars, utterances, raw, out, kss, arg, ret, ret2>>

GenerateWindowId ==
    /\ pc = "missing_removed"
    /\ df' = generate_window_id(df)
    /\ pc' = "windowed"
    /\ UNCHANGED <<reportVars, utterances, raw, out, kss, arg, ret, ret2>>

JoinTextsByWindow ==
    /\ pc = "windowed"
    /\ utterances' = join_texts_by_window(df)
    /\ pc' = "joined"
    /\ UNCHANGED <<reportVars, df, raw, out, kss, arg, ret, ret2>>

SplitSentencesKeepSchema ==
    /\ pc = "joined"
    /\ \E f \in KssFunctions(CalledTexts(utterances)) :
        /\ kss' = f
        /\ IF SplitRaises(utterances, f)
           THEN pc' = "raised" /\ out' = out
           ELSE pc' = "split" /\ out' = split_sentences_keep_schema(utterances, f)
    /\ UNCHANGED <<reportVars, df, utterances, raw, arg, ret, ret2>>

CleanSentences ==
    /\ pc = "split"
    /\ out' = MapClean(out)
    /\ pc' = "done"
    /\ UNCHANGED <<reportVars, df, utterances, raw, kss, arg, ret, ret2>>

Next ==
    \/ RemoveMissing
    \/ GenerateWindowId
    \/ JoinTextsByWindow
    \/ SplitSentencesKeepSchema
    \/ CleanSentences

\* the tables of 0..n rows whose row at position i is drawn from rows[i]
Tables(rows, n) ==
    UNION {{t \in [1..k -> UNION {rows[i] : i \in 1..k}] :
                \A i \in 1..k : t[i] \in rows[i]} : k \in 0..n}

MaxRows == 2

\* utterance texts of the runs through the whole chain
sampleTwoSentences ==
    <<45208, 45716, 32, 51339, 50500, 46, 32, 51020, 32,
      51221, 47568, 32, 51339, 50500, 33, 33>>
sampleFiller == <<51020>>
sampleNoise == <<91, 110, 111, 105, 115, 101, 93>>
sampleBlank == <<32>>
sampleEmpty == <<>>
sampleQuestion == <<51339, 50500, 63>>

SampleTexts ==
    {sampleTwoSentences, sampleFiller, sampleNoise, sampleBlank, sampleQuestion}

\* rows of the constructor's table: two dolls, two times more than five
\* minutes apart, the sample texts; and a row without text
SampleRows(i) ==
    {[doll_id |-> d, uttered_at |-> t, text |-> x, orig |-> i] :
        d \in {1, 2}, t \in {0, 301}, x \in SampleTexts}
    \cup {[doll_id |-> 1, uttered_at |-> 0, text |-> NaText, orig |-> i]}

Init ==
    /\ pc = "constructed"
    /\ df \in Tables([i \in 1..MaxRows |-> SampleRows(i)], MaxRows)
    /\ raw = df
    /\ utterances = <<>>
    /\ out = <<>>
    /\ kss = <<>>
    /\ arg = <<>>
    /\ ret = <<>>
    /\ ret2 = <<>>
    /\ NoReport

Spec == Init /\ [][Next]_vars

---------------------------------------------------------------------------
(* The windowing methods alone, on tables with many different gaps         *)

MaxUtterances == 3

\* the text of the row at position i: one letter, a at position 1
LetterText(i) == <<96 + i>>

\* two dolls; gaps of 4, 5 and 10 minutes and of 5 minutes and a second;
\* and one row for each column that can be missing
WindowRows(i) ==
    {[doll_id |-> d, uttered_at |-> t, text |-> LetterText(i), orig |-> i] :
        d \in {1, 2}, t \in {0, 240, 300, 600, 601}}
    \cup {[doll_id |-> NaN, uttered_at |-> 0, text |-> LetterText(i), orig |-> i],
          [doll_id |-> 1, uttered_at |-> NaN, text |-> LetterText(i), orig |-> i],
          [doll_id |-> 1, uttered_at |-> 0, text |-> NaText, orig |-> i]}

InitWindow ==
    /\ pc = "constructed"
    /\ df \in Tables([i \in 1..MaxUtterances |-> WindowRows(i)], MaxUtterances)
    /\ raw = df
    /\ utterances = <<>>
    /\ out = <<>>
    /\ kss = <<>>
    /\ arg = <<>>
    /\ ret = <<>>
    /\ ret2 = <<>>
    /\ NoReport

NextWindow == RemoveMissing \/ GenerateWindowId \/ JoinTextsByWindow

SpecWindow == InitWindow /\ [][NextWindow]_vars

---------------------------------------------------------------------------
(* Properties of the windowing                                             *)

\* C1: after generate_window_id the rows of each doll are in ascending
\* uttered_at order; the first row of a doll has window_id 0 and every later
\* row has the window_id of the row before it, plus 1 exactly when the gap
\* to that row is strictly more than 5 minutes (300 s does not split)
C1_WindowIds ==
    pc \in {"windowed", "joined"} =>
        \A i \in 1..Len(df) :
            LET first == i = 1 \/ df[i - 1].doll_id # df[i].doll_id
            IN  /\ i > 1 => df[i - 1].doll_id <= df[i].doll_id
                /\ ~first => df[i - 1].uttered_at <= df[i].uttered_at
                /\ first => df[i].window_id = 0
                /\ ~first =>
                    df[i].window_id =
                        df[i - 1].window_id
                        + (IF df[i].uttered_at - df[i - 1].uttered_at > 5 * 60
                           THEN 1 ELSE 0)

\* one doll spoke at 0 s, 300 s and 601 s: the gap of exactly 300 s stays in
\* window 0, the gap of 301 s opens window 1
C1_Witness ==
    /\ pc = "windowed"
    /\ Len(df) = 3
    /\ \A i \in 1..3 : df[i].doll_id = 1
    /\ <<df[1].uttered_at, df[2].uttered_at, df[3].uttered_at>> = <<0, 300, 601>>
    /\ <<df[1].window_id, df[2].window_id, df[3].window_id>> = <<0, 0, 1>>

\* the rows of the constructor's table without a missing cell
Retained ==
    {i \in 1..Len(raw) :
        raw[i].doll_id # NaN /\ raw[i].uttered_at # NaN /\ raw[i].text # NaText}

\* C9: after remove_missing, generate_window_id and join_texts_by_window the
\* windows partition the retained utterances: each retained row is in
\* exactly one window, of its own doll; no dropped row is in a window; no
\* window is empty (a doll without retained rows has none); a window's text
\* is its rows' texts joined by one space, in ascending uttered_at order,
\* rows of equal time in the order of the input
C9_WindowsPartition ==
    pc = "joined" =>
        /\ \A i \in Retained :
            /\ Cardinality({g \in 1..Len(utterances) :
                    i \in Range(utterances[g].members)}) = 1
            /\ \A g \in 1..Len(utterances) :
                i \in Range(utterances[g].members)
                    => utterances[g].doll_id = raw[i].doll_id
        /\ \A g \in 1..Len(utterances) :
            LET m == utterances[g].members
            IN  /\ Range(m) \subseteq Retained
                /\ Len(m) >= 1
                /\ Cardinality(Range(m)) = Len(m)
                /\ \A a, b \in 1..Len(m) :
                    a < b =>
                        \/ raw[m[a]].uttered_at < raw[m[b]].uttered_at
                        \/ /\ raw[m[a]].uttered_at = raw[m[b]].uttered_at
                           /\ m[a] < m[b]
                /\ utterances[g].texts =
                    StrJoin(<<32>>, [n \in 1..Len(m) |-> raw[m[n]].text])
        /\ \A g, h \in 1..Len(utterances) :
            g # h => <<utterances[g].doll_id, utterances[g].window_id>>
                     # <<utterances[h].doll_id, utterances[h].window_id>>

\* rows 1 and 3 were uttered by one doll at the same time and row 2 has a
\* missing cell: one window, "a c"
C9_Witness ==
    /\ pc = "joined"
    /\ Len(raw) = 3
    /\ Retained = {1, 3}
    /\ raw[1].uttered_at = raw[3].uttered_at
    /\ Len(utterances) = 1
    /\ utterances[1].members = <<1, 3>>
    /\ utterances[1].texts = <<97, 32, 99>>

---------------------------------------------------------------------------
(* Properties of the sentence table                                        *)

\* the rows of the sentence table o of window key, in row order
RowsOf(o, key) ==
    Ascending({i \in 1..Len(o) : <<o[i].doll_id, o[i].window_id>> = key})

\* C2: in the sentence table returned by preprocess_utterances, the rows of
\* every (doll_id, window_id) carry sentence_index 0, 1, ..., n-1 in row
\* order and all carry sentences_count n, n the number of the window's rows
C2_SentenceIndexDense ==
    pc \in {"split", "done"} =>
        \A key \in {<<out[i].doll_id, out[i].window_id>> : i \in 1..Len(out)} :
            LET rows == RowsOf(out, key)
            IN  \A n \in 1..Len(rows) :
                    /\ out[rows[n]].sentence_index = n - 1
                    /\ out[rows[n]].sentences_count = Len(rows)

\* the returned table holds a window of two sentences after another window
C2_Witness ==
    /\ pc = "done"
    /\ Len(out) = 3
    /\ <<out[1].doll_id, out[1].window_id>> # <<out[2].doll_id, out[2].window_id>>
    /\ out[2].sentence_index = 0
    /\ out[3].sentence_index = 1
    /\ out[3].sentences_count = 2

\* C3: no row of the sentence table returned by preprocess_utterances has an
\* empty or whitespace-only sentence_text
C3_NoEmptySentence ==
    pc = "done" => \A i \in 1..Len(out) : Strip(out[i].sentence_text) # <<>>

---------------------------------------------------------------------------
(* split_sentences_keep_schema and the cleaning on joined tables of up to  *)
(* two windows and of about SEGMENT_CAP windows                            *)

MaxWindows == 32

\* " X?  Y.Y! ": blanks at both ends, two blanks after "?", "." inside a word
sampleRagged ==
    <<32, 51339, 50500, 63, 32, 32, 51020, 46, 51020, 33, 32>>

SegmentTexts == {NaText, sampleEmpty, sampleBlank, sampleTwoSentences, sampleRagged}

\* the key of the joined table's row i: two windows, 0 and 1, per doll
KeyOfRow(i) == <<(i + 1) \div 2, (i + 1) % 2>>

\* numbers of windows: up to 2, and from one below the cap to MaxWindows
TableSizes == (0..2) \cup ((SEGMENT_CAP - 1)..MaxWindows)

\* joined tables of n rows, every text base but the text of row k; row k is
\* one of the first two rows or a row around the cap
SegmentTables ==
    {[i \in 1..n |->
        [doll_id |-> KeyOfRow(i)[1], window_id |-> KeyOfRow(i)[2],
         texts |-> IF i = k THEN other ELSE base, members |-> <<i>>]] :
        n \in TableSizes, k \in (1..2) \cup ((SEGMENT_CAP - 1)..MaxWindows),
        base \in SegmentTexts, other \in SegmentTexts}

InitSegment ==
    /\ pc = "joined"
    /\ utterances \in SegmentTables
    /\ df = <<>>
    /\ raw = <<>>
    /\ out = <<>>
    /\ kss = <<>>
    /\ arg = <<>>
    /\ ret = <<>>
    /\ ret2 = <<>>
    /\ NoReport

NextSegment == SplitSentencesKeepSchema \/ CleanSentences

SpecSegment == InitSegment /\ [][NextSegment]_vars

\* the sentence texts of the rows the joined table's row i has in out
SentencesOfRow(i) ==
    LET rows == RowsOf(out, <<utterances[i].doll_id, utterances[i].window_id>>)
    IN  [n \in 1..Len(rows) |-> out[rows[n]].sentence_text]

\* s without its whitespace
RECURSIVE Ink(_)
Ink(s) ==
    IF s = <<>> THEN <<>>
    ELSE IF IsSpace(Head(s)) THEN Ink(Tail(s))
    ELSE <<Head(s)>> \o Ink(Tail(s))

\* pieces are the trimmed non-empty pieces of text split at '.', '!' or '?'
\* followed by whitespace: they are trimmed and not empty, none holds such a
\* split point, every piece but the last ends at one, and together they hold
\* the text's characters
IsFallbackSplit(text, pieces) ==
    /\ \A n \in 1..Len(pieces) :
        /\ pieces[n] # <<>>
        /\ Strip(pieces[n]) = pieces[n]
        /\ \A j \in 2..Len(pieces[n]) :
            ~(pieces[n][j - 1] \in {46, 33, 63} /\ IsSpace(pieces[n][j]))
        /\ n < Len(pieces) => pieces[n][Len(pieces[n])] \in {46, 33, 63}
    /\ Ink(Flatten(pieces)) = Ink(text)

\* C8: no error of the segmenter leaves the segmentation; a window on whose
\* text the segmenter raised has the rows of the regex fallback; a window
\* whose text is not a string, or is empty or blank, was not handed to the
\* segmenter and has no row
C8_SegmentationSafe ==
    /\ pc # "raised"
    /\ pc = "split" =>
        \A i \in 1..Len(utterances) :
            i <= 30 =>
                LET t == utterances[i].texts
                IN  IF ~IsStr(t) \/ \A j \in 1..Len(t) : IsSpace(t[j])
                    THEN t \notin DOMAIN kss /\ SentencesOfRow(i) = <<>>
                    ELSE /\ t \in DOMAIN kss
                         /\ kss[t].raised =>
                                IsFallbackSplit(t, SentencesOfRow(i))

\* the segmenter raised on a text of two sentences, which has its two rows,
\* and a window without a string has none
C8_Witness ==
    /\ pc = "split"
    /\ Len(utterances) = 2
    /\ utterances[1].texts = NaText
    /\ utterances[2].texts = sampleRagged
    /\ kss[sampleRagged].raised
    /\ Len(out) = 2
    /\ out[1].sentence_text = <<51339, 50500, 63>>
    /\ out[2].sentence_text = <<51020, 46, 51020, 33>>

\* the joined table's row i yields a sentence: its text is a string with
\* ink, and the segmenter raised on it or returned a piece with ink
YieldsSentence(i) ==
    LET t == utterances[i].texts
    IN  /\ IsStr(t)
        /\ \E j \in 1..Len(t) : ~IsSpace(t[j])
        /\ t \in DOMAIN kss
        /\ \/ kss[t].raised
           \/ \E n \in 1..Len(kss[t].sents) :
                \E j \in 1..Len(kss[t].sents[n]) : ~IsSpace(kss[t].sents[n][j])

\* C10: the sentence table has rows of a window exactly when the window is
\* among the first 30 rows of the joined table and yields a sentence: a
\* window at row 31 or later has no row, and with 30 or fewer windows every
\* window that yields a sentence has rows
C10_SegmentationCapped ==
    pc \in {"split", "done"} =>
        /\ \A i \in 1..Len(utterances) :
            SentencesOfRow(i) # <<>> <=> (i <= 30 /\ YieldsSentence(i))
        /\ \A r \in 1..Len(out) :
            \E i \in 1..Len(utterances) :
                /\ i <= 30
                /\ <<out[r].doll_id, out[r].window_id>>
                    = <<utterances[i].doll_id, utterances[i].window_id>>

\* the 31st window has a text of two sentences and no row; the 30th has rows
C10_Witness ==
    /\ pc = "split"
    /\ Len(utterances) >= 31
    /\ utterances[31].texts = sampleTwoSentences
    /\ SentencesOfRow(31) = <<>>
    /\ SentencesOfRow(30) # <<>>

---------------------------------------------------------------------------
(* SentimentScore.get_sentiment_scores.  A score is a number of steps of   *)
(* 1 / ScoreSteps: ScoreSteps stands for 1.0.                              *)

ScoreSteps == 4

labelPositive == <<112, 111, 115, 105, 116, 105, 118, 101>>      \* positive
labelPositiveCap == <<80, 111, 115, 105, 116, 105, 118, 101>>    \* Positive
labelNegative == <<110, 101, 103, 97, 116, 105, 118, 101>>       \* negative

\* str.lower()
LowerStr(s) == [i \in 1..Len(s) |-> Lower(s[i])]

\* the body of the loop, comparing the label as it is
SentimentOfExact(t, output) ==
    IF output.label = labelPositive
    THEN [text |-> t, sentiment_pos |-> output.score,
          sentiment_neg |-> ScoreSteps - output.score]
    ELSE [text |-> t, sentiment_pos |-> ScoreSteps - output.score,
          sentiment_neg |-> output.score]

\* the body of the loop over zip(texts, outputs)
SentimentOf(t, output) ==
    IF LowerStr(output.label) = labelPositive
    THEN [text |-> t, sentiment_pos |-> output.score,
          sentiment_neg |-> ScoreSteps - output.score]
    ELSE [text |-> t, sentiment_pos |-> ScoreSteps - output.score,
          sentiment_neg |-> output.score]

\* get_sentiment_scores(texts), given outs = self.pipe(texts); zip stops at
\* the shorter list
get_sentiment_scores(ts, outs) ==
    [i \in 1..(IF Len(ts) < Len(outs) THEN Len(ts) ELSE Len(outs)) |->
        SentimentOf(ts[i], outs[i])]

\* what the classifier may return for one text
ClassifierOutputs ==
    {[label |-> l, score |-> k] :
        l \in {labelPositive, labelPositiveCap, labelNegative}, k \in 0..ScoreSteps}

---------------------------------------------------------------------------
(* main.py: tables carry their index; a row is a record with its index     *)
(* label and its columns                                                   *)

\* str(t)
Str(t) == IF IsStr(t) THEN t ELSE <<110, 97, 110>>

\* the table with its index as it is
KeepIndex(t) == t

\* reset_index(drop=True): the index becomes 0..n-1
ResetIndex(t) == [i \in 1..Len(t) |-> [t[i] EXCEPT !.index = i - 1]]

\* the labels of the tables of ts, each once, in order of first appearance
RECURSIVE UnionLabels(_, _)
UnionLabels(labels, seen) ==
    IF labels = <<>> THEN <<>>
    ELSE IF Head(labels) \in seen THEN UnionLabels(Tail(labels), seen)
    ELSE <<Head(labels)>> \o UnionLabels(Tail(labels), seen \cup {Head(labels)})

IndexOf(t) == [i \in 1..Len(t) |-> t[i].index]

\* the row of t labelled l, or none
HasLabel(t, l) == \E i \in 1..Len(t) : t[i].index = l
RowAt(t, l) == t[CHOOSE i \in 1..Len(t) : t[i].index = l]

\* pd.concat([a, b, c], axis=1): the rows of equal index label side by
\* side, a missing value where a table has no row of that label
ConcatColumns(a, b, c) ==
    LET labels == UnionLabels(IndexOf(a) \o IndexOf(b) \o IndexOf(c), {})
    IN  [n \in 1..Len(labels) |->
            LET l == labels[n]
            IN  [index |-> l,
                 id |-> IF HasLabel(a, l) THEN RowAt(a, l).id ELSE NaN,
                 text |-> IF HasLabel(b, l) THEN RowAt(b, l).text ELSE NaText,
                 sentiment_pos |->
                    IF HasLabel(b, l) THEN RowAt(b, l).sentiment_pos ELSE NaN,
                 sentiment_neg |->
                    IF HasLabel(b, l) THEN RowAt(b, l).sentiment_neg ELSE NaN,
                 keyword_scores |->
                    IF HasLabel(c, l) THEN RowAt(c, l).keyword_scores
                    ELSE [key \in DOMAIN keyword_count_score(<<>>) |-> NaN]]]

MaxReportRows == 2

reportTextGood == <<51339, 50500, 32, 51339, 50500>>   \* a positive keyword twice
reportTextDanger == <<51453, 44256, 32, 49910>>        \* a danger phrase

\* index labels of a table of n rows: 0..n-1, the same reversed, or 1..n
ReportIndexes(n) ==
    {[i \in 1..n |-> i - 1], [i \in 1..n |-> n - i], [i \in 1..n |-> i]}

\* the table read from the file: the id column holds the row's position
ReportTables ==
    UNION {{[i \in 1..n |-> [index |-> idx[i], id |-> i, text |-> ts[i]]] :
                idx \in ReportIndexes(n),
                ts \in [1..n -> {reportTextGood, reportTextDanger}]} :
           n \in 0..MaxReportRows}

InitReport ==
    /\ pc = "read"
    /\ df \in ReportTables
    /\ raw = df
    /\ utterances = <<>>
    /\ out = <<>>
    /\ kss = <<>>
    /\ arg = <<>>
    /\ ret = <<>>
    /\ ret2 = <<>>
    /\ NoReport

\* texts = df['text'].tolist()
TextsToList ==
    /\ pc = "read"
    /\ texts' = [i \in 1..Len(df) |-> df[i].text]
    /\ pc' = "texts"
    /\ UNCHANGED <<df, utterances, raw, out, kss, arg, ret, ret2,
                   outputs, sentiment_results, kewyword_scores, analysis_dataset>>

\* sentiment_results_df = pd.DataFrame(sentiment.get_sentiment_scores(texts));
\* the classifier answers each text by itself, in order
GetSentimentScores ==
    /\ pc = "texts"
    /\ \E classify \in [Range(texts) -> ClassifierOutputs] :
        /\ outputs' = [i \in 1..Len(texts) |-> classify[texts[i]]]
        /\ sentiment_results' =
            LET results == get_sentiment_scores(texts, outputs')
            IN  [i \in 1..Len(results) |->
                    [index |-> i - 1, text |-> results[i].text,
                     sentiment_pos |-> results[i].sentiment_pos,
                     sentiment_neg |-> results[i].sentiment_neg]]
    /\ pc' = "sentiment"
    /\ UNCHANGED <<df, utterances, raw, out, kss, arg, ret, ret2,
                   texts, kewyword_scores, analysis_dataset>>

\* df["text"].apply(lambda t: pd.Series(keyword_count_score(str(t)))): a
\* table on the index of df
KeywordScores ==
    /\ pc = "sentiment"
    /\ kewyword_scores' =
        [i \in 1..Len(df) |->
            [index |-> df[i].index,
             keyword_scores |-> keyword_count_score(Str(df[i].text))]]
    /\ pc' = "keywords"
    /\ UNCHANGED <<df, utterances, raw, out, kss, arg, ret, ret2,
                   texts, outputs, sentiment_results, analysis_dataset>>

\* df.drop(columns='text')
DropText(t) == [i \in 1..Len(t) |-> [index |-> t[i].index, id |-> t[i].id]]

\* analysis_dataset = pd.concat([...], axis=1), each table with its index reset
Concat ==
    /\ pc = "keywords"
    /\ analysis_dataset' =
        ConcatColumns(ResetIndex(DropText(df)), ResetIndex(sentiment_results),
                      ResetIndex(kewyword_scores))
    /\ pc' = "merged"
    /\ UNCHANGED <<df, utterances, raw, out, kss, arg, ret, ret2,
                   texts, outputs, sentiment_results, kewyword_scores>>

NextReport == TextsToList \/ GetSentimentScores \/ KeywordScores \/ Concat

SpecReport == InitReport /\ [][NextReport]_vars

\* C5: for every classifier output with a score in [0, 1], sentiment_pos and
\* sentiment_neg both lie in [0, 1] and sum to 1; sentiment_pos is the score
\* and sentiment_neg its complement when the label is the positive class, in
\* whatever case it is written, and the other way round otherwise
C5_SentimentComplementary ==
    pc \in {"sentiment", "keywords", "merged"} =>
        /\ Len(sentiment_results) = Len(outputs)
        /\ \A i \in 1..Len(outputs) :
            LET r == sentiment_results[i]
                positive == outputs[i].label \in {labelPositive, labelPositiveCap}
            IN  /\ r.sentiment_pos >= 0 /\ r.sentiment_pos <= ScoreSteps
                /\ r.sentiment_neg >= 0 /\ r.sentiment_neg <= ScoreSteps
                /\ r.sentiment_pos + r.sentiment_neg = ScoreSteps
                /\ positive => r.sentiment_pos = outputs[i].score
                /\ ~positive => r.sentiment_neg = outputs[i].score

\* the classifier answered "Positive" with score 1 and "negative" with
\* score 0: both rows get sentiment_pos 1 and sentiment_neg 0
C5_Witness ==
    /\ pc = "sentiment"
    /\ Len(outputs) = 2
    /\ outputs[1] = [label |-> labelPositiveCap, score |-> ScoreSteps]
    /\ outputs[2] = [label |-> labelNegative, score |-> 0]
    /\ sentiment_results[1].sentiment_pos = ScoreSteps
    /\ sentiment_results[1].sentiment_neg = 0
    /\ sentiment_results[2].sentiment_pos = ScoreSteps
    /\ sentiment_results[2].sentiment_neg = 0

\* C7: the merged table has as many rows as the table read, and its row i
\* holds the metadata of row i of that table with the text of that row and
\* the sentiment and keyword scores computed from it, whatever the index of
\* the table read
C7_MergeAligned ==
    pc = "merged" =>
        /\ Len(analysis_dataset) = Len(raw)
        /\ \A i \in 1..Len(analysis_dataset) :
            /\ analysis_dataset[i].id = raw[i].id
            /\ analysis_dataset[i].text = raw[i].text
            /\ analysis_dataset[i].sentiment_pos
                = (IF outputs[i].label \in {labelPositive, labelPositiveCap}
                   THEN outputs[i].score ELSE ScoreSteps - outputs[i].score)
            /\ analysis_dataset[i].sentiment_pos + analysis_dataset[i].sentiment_neg
                = ScoreSteps
            /\ analysis_dataset[i].keyword_scores = keyword_count_score(raw[i].text)

\* a table of two rows with different texts and the index 1, 0 was merged
C7_Witness ==
    /\ pc = "merged"
    /\ Len(raw) = 2
    /\ <<raw[1].index, raw[2].index>> = <<1, 0>>
    /\ raw[1].text # raw[2].text
    /\ outputs[1] # outputs[2]
    /\ Len(analysis_dataset) = 2
    /\ analysis_dataset[2].keyword_scores["keyword_score_danger"]
        # analysis_dataset[1].keyword_scores["keyword_score_danger"]

===========================================================================
